---------------------------- MODULE Spec2Model ----------------------------
(***************************************************************************)
(* A model of pychro's VanillaChronicleReader (pychro/vanilla_reader.py):  *)
(* the index codec, the cycle directories, the index-file chain, the tail  *)
(* loop and the reader's positioning operations, together with the writers *)
(* whose output the reader consumes.                                      *)
(*                                                                         *)
(* Numbers wider than 31 bits (full indices, 64-bit slot words, the bit    *)
(* masks) are kept as little-endian sequences of bits without leading      *)
(* zeros, so that shifts, masks and sums have their exact value.           *)
(***************************************************************************)
EXTENDS Integers, Sequences, FiniteSets, TLC

VARIABLES
    clock,      \* the injected utcnow(), in seconds since the epoch
    base_dir,   \* the base directory's listing: a set of [name, isdir]
    cycles,     \* the cycle directories' files: name -> [index, slots, data]
    writers,    \* the appender threads: id -> [pc, dir, date, key, off, ptr, n]
    reader,     \* the VanillaChronicleReader instance's fields
    pc,         \* the reader call in progress: [op, at] (Idle between calls)
    ret,        \* the last finished reader call: [op, err, val]
    last_read,  \* the slot of the last record returned, while no set_* or close followed
    trail,      \* the records returned since construction, while only reads were called
    cin,        \* codec specification: the arguments of the pure function applied
    cout,       \* codec specification: its result (NoResult before it is applied)
    cmap,       \* CAS specification: the 8-byte words of the shared mapping
    cthreads    \* CAS specification: the CMapThreads, id -> [offset, writes]

envvars == <<clock, base_dir, cycles, writers>>
rdvars == <<reader, pc, ret, last_read, trail>>
codecvars == <<cin, cout, cmap, cthreads>>
vars == <<clock, base_dir, cycles, writers, reader, pc, ret, last_read, trail, cin, cout,
          cmap, cthreads>>

-----------------------------------------------------------------------------
(* Exact naturals as bit sequences (bit 0 first).                          *)

Min(a, b) == IF a <= b THEN a ELSE b
Max(a, b) == IF a >= b THEN a ELSE b

\* the value of F for v: v is named once and used by F as often as needed
Let(v, F(_)) == F(v)

Rep(x, n) == [i \in 1..n |-> x]

\* b without its most significant zeros
Norm(b) ==
    SubSeq(b, 1, CHOOSE m \in 0..Len(b) :
                     (m = 0 \/ b[m] # 0) /\ \A j \in (m + 1)..Len(b) : b[j] = 0)

\* the w lowest bits of n
Fixed(n, w) == [i \in 1..w |-> (n \div 2 ^ (i - 1)) % 2]

\* integers stay below 2^31
BitsOf(n) == Norm(Fixed(n, 31))

RECURSIVE ValueOf(_)
ValueOf(b) ==
    IF b = <<>> THEN 0
    ELSE IF Len(b) = 1 THEN b[1]
    ELSE ValueOf(SubSeq(b, 1, Len(b) \div 2))
             + 2 ^ (Len(b) \div 2) * ValueOf(SubSeq(b, Len(b) \div 2 + 1, Len(b)))

Bit(b, i) == IF i <= Len(b) THEN b[i] ELSE 0

ShiftLeft(b, k) == IF b = <<>> THEN <<>> ELSE Rep(0, k) \o b
ShiftRight(b, k) == IF Len(b) <= k THEN <<>> ELSE SubSeq(b, k + 1, Len(b))
BitAnd(a, b) == Norm([i \in 1..Min(Len(a), Len(b)) |-> a[i] * b[i]])
BitOr(a, b) == [i \in 1..Max(Len(a), Len(b)) |-> Max(Bit(a, i), Bit(b, i))]

\* the sum is taken 15 bits at a time, as integers
LowChunk(b) == ValueOf(SubSeq(b, 1, Min(Len(b), 15)))

RECURSIVE AddCarry(_, _, _)
AddCarry(a, b, c) ==
    IF b = <<>> /\ c = 0 THEN a
    ELSE IF a = <<>> /\ c = 0 THEN b
    ELSE IF Len(a) <= 15 /\ Len(b) <= 15
    THEN Fixed(ValueOf(a) + ValueOf(b) + c, Max(Len(a), Len(b)))
             \o (IF ValueOf(a) + ValueOf(b) + c >= 2 ^ Max(Len(a), Len(b))
                 THEN <<1>> ELSE <<>>)
    ELSE Fixed(LowChunk(a) + LowChunk(b) + c, 15)
             \o AddCarry(ShiftRight(a, 15), ShiftRight(b, 15),
                         (LowChunk(a) + LowChunk(b) + c) \div 2 ^ 15)

Plus(a, b) == AddCarry(a, b, 0)

Reverse(s) == [i \in 1..Len(s) |-> s[Len(s) + 1 - i]]

\* eval('0b' + digits): the value of a binary literal, most significant digit first
BinaryLiteral(digits) == Norm(Reverse(digits))

\* the decimal digits of a number below 2^54, most significant first (str(n));
\* the number is divided by ten as two halves of 27 bits

RECURSIVE DecimalOf(_, _)
DecimalOf(hi, lo) ==
    IF hi = 0 /\ lo = 0 THEN <<>>
    ELSE DecimalOf(hi \div 10, ((hi % 10) * 2 ^ 27 + lo) \div 10)
             \o <<((hi % 10) * 2 ^ 27 + lo) % 10>>

Decimal(b) ==
    DecimalOf(ValueOf(ShiftRight(b, 27)), ValueOf(SubSeq(b, 1, Min(Len(b), 27))))

-----------------------------------------------------------------------------
(* The constants of the format (pychro/_pychro.py).                        *)

\* the model's index files hold 2^IndexFileBits bytes (the format's hold 2^24,
\* 2*1024*1024 slots); the relations between the index constants are kept
IndexFileBits == 4

WORD_BITS == 64
CYCLE_INDEX_POS == 40
DATA_FILE_BITS == 26

INDEX_FILE_SIZE == 2 ^ IndexFileBits
FILENUM_FROM_INDEX_SHIFT == IndexFileBits
INDEX_OFFSET_MASK == BitsOf(INDEX_FILE_SIZE - 1)
FILENUM_FROM_POS_SHIFT == DATA_FILE_BITS
POS_MASK == Rep(1, DATA_FILE_BITS)

-----------------------------------------------------------------------------
(* Dates: datetime.date as [year, month, day], and the day count of         *)
(* datetime's proleptic Gregorian calendar.                                 *)

Date(y, m, d) == [year |-> y, month |-> m, day |-> d]

\* datetime.datetime(y, m, d, tzinfo=utc).timestamp(): seconds since 1970-01-01
timestamp(date) ==
    Let(IF date.month <= 2 THEN date.year - 1 ELSE date.year, LAMBDA y :
    Let((date.month + 9) % 12, LAMBDA mp :
        ((y \div 400) * 146097 + (y % 400) * 365 + (y % 400) \div 4 - (y % 400) \div 100
         + (153 * mp + 2) \div 5 + date.day - 1 - 719468) * 86400))

\* datetime.datetime.fromtimestamp(ts, tz=utc).date()
fromtimestamp(ts) ==
    Let(ts \div 86400 + 719468, LAMBDA z :
    Let(z % 146097, LAMBDA doe :
    Let((doe - doe \div 1460 + doe \div 36524 - doe \div 146096) \div 365, LAMBDA yoe :
    Let(doe - (365 * yoe + yoe \div 4 - yoe \div 100), LAMBDA doy :
    Let((5 * doy + 2) \div 153, LAMBDA mp :
        Date(yoe + (z \div 146097) * 400 + (IF mp < 10 THEN 0 ELSE 1),
             IF mp < 10 THEN mp + 3 ELSE mp - 9,
             doy - (153 * mp + 2) \div 5 + 1))))))

-----------------------------------------------------------------------------
(* The index codec.                                                        *)

\* index + ((timestamp // 86400) << CYCLE_INDEX_POS); index is a small integer
to_full_index(date, index) ==
    Plus(BitsOf(index), ShiftLeft(BitsOf(timestamp(date) \div 86400), CYCLE_INDEX_POS))

\* (date, index): index = full_index & INDEX_OFFSET_MASK
from_full_index(full_index) ==
    <<fromtimestamp(ValueOf(ShiftRight(full_index, CYCLE_INDEX_POS)) * 86400),
      ValueOf(BitAnd(full_index, INDEX_OFFSET_MASK))>>

\* the reader's masks, from thread_id_bits
index_data_offset_bits(T) == WORD_BITS - T
thread_id_idx_mask(T) == BinaryLiteral(Rep(1, T) \o Rep(0, index_data_offset_bits(T)))
thread_id_mask(T) == BinaryLiteral(Rep(1, T))

\* a faulty position mask, one bit short
index_data_offset_mask_short(T) ==
    BinaryLiteral(Rep(0, T + 1) \o Rep(1, index_data_offset_bits(T) - 1))

index_data_offset_mask(T) ==
    BinaryLiteral(Rep(0, T) \o Rep(1, index_data_offset_bits(T)))

\* the fields __init__ derives from thread_id_bits
masks(T) ==
    [index_data_offset_bits |-> index_data_offset_bits(T),
     thread_id_idx_mask |-> thread_id_idx_mask(T),
     thread_id_mask |-> thread_id_mask(T),
     index_data_offset_mask |-> index_data_offset_mask(T)]

\* the writer's slot word: (thread << (64 - T)) | position
pack_slot(T, thread, position) == Norm(BitOr(ShiftLeft(thread, WORD_BITS - T), position))

\* _next_position's decoding of a slot word, r holding the fields above
decode(r, val) ==
    Let(BitAnd(val, r.index_data_offset_mask), LAMBDA pos :
        [position |-> pos,
         filenum  |-> ShiftRight(pos, FILENUM_FROM_POS_SHIFT),
         pos      |-> BitAnd(pos, POS_MASK),
         thread   |-> ShiftRight(BitAnd(val, r.thread_id_idx_mask), r.index_data_offset_bits)])

-----------------------------------------------------------------------------
(* The base directory: names are sequences of character codes.             *)

Digit(n) == 48 + n
IsDigit(c) == c >= 48 /\ c <= 57

\* '%4d%02d%02d' % (date.year, date.month, date.day)
date_str(date) ==
    <<Digit(date.year \div 1000), Digit((date.year \div 100) % 10),
      Digit((date.year \div 10) % 10), Digit(date.year % 10),
      Digit(date.month \div 10), Digit(date.month % 10),
      Digit(date.day \div 10), Digit(date.day % 10)>>

\* int(s) of a string of digits
RECURSIVE IntOf(_)
IntOf(s) == IF s = <<>> THEN 0 ELSE 10 * IntOf(SubSeq(s, 1, Len(s) - 1)) + (s[Len(s)] - 48)

\* datetime.date of a cycle directory's name
DateOf(dir) == Date(IntOf(SubSeq(dir, 1, 4)), IntOf(SubSeq(dir, 5, 6)), IntOf(SubSeq(dir, 7, 8)))

\* a < b on strings
RECURSIVE StrLess(_, _)
StrLess(a, b) ==
    IF b = <<>> THEN FALSE
    ELSE IF a = <<>> THEN TRUE
    ELSE IF Head(a) # Head(b) THEN Head(a) < Head(b)
    ELSE StrLess(Tail(a), Tail(b))

RECURSIVE SortedSeq(_)
SortedSeq(S) ==
    IF S = {} THEN <<>>
    ELSE Let(CHOOSE x \in S : \A y \in S : x = y \/ StrLess(x, y), LAMBDA m :
             <<m>> \o SortedSeq(S \ {m}))

\* sorted(os.listdir(self._base_dir))
sorted_listdir == SortedSeq({e.name : e \in base_dir})

\* re.match('^[0-9]{8}$', f)
match_cycle_name(f) == Len(f) = 8 /\ \A i \in 1..Len(f) : IsDigit(f[i])

isdir(f) == \E e \in base_dir : e.name = f /\ e.isdir

\* the entry is a file, so that opening a path below it raises NotADirectoryError
isfile(f) == \E e \in base_dir : e.name = f /\ ~e.isdir

\* int(dstr[:4]), int(dstr[4:6]), int(dstr[6:8]) and datetime.date(...) raise no ValueError
date_parses(dstr) ==
    /\ Len(dstr) >= 8
    /\ \A i \in 1..8 : IsDigit(dstr[i])
    /\ \E d \in {DateOf(dstr)} :
          /\ d.year >= 1 /\ d.month \in 1..12 /\ d.day >= 1
          /\ d.day <= IF d.month \in {4, 6, 9, 11} THEN 30
                      ELSE IF d.month # 2 THEN 31
                      ELSE IF d.year % 4 = 0 /\ (d.year % 100 # 0 \/ d.year % 400 = 0) THEN 29
                      ELSE 28

\* utcnow().date()
today == fromtimestamp(clock)

SlotsPerIndexFile == INDEX_FILE_SIZE \div 8

\* the 8-byte word at a byte offset of file index-<num> of a cycle directory
read_mmap(mm, offset) ==
    Let(mm.num * SlotsPerIndexFile + offset \div 8, LAMBDA s :
        IF s < Len(cycles[mm.dir].slots) THEN cycles[mm.dir].slots[s + 1] ELSE <<>>)

-----------------------------------------------------------------------------
(* The reader's fields and its internal methods.  A method is a function   *)
(* from the instance's fields to [r, err, val]: the fields afterwards, the *)
(* exception raised ("" when none) and the value returned.                 *)

None == <<>>
NoResult == [done |-> FALSE]
NoDate == Date(0, 0, 0)
NoNumber == <<-1>>
NoPolling == -1
NoMemory == -1

Ok(r, val) == [r |-> r, err |-> "", val |-> val]
Raise(r, err) == [r |-> r, err |-> err, val |-> None]

\* a call's exception propagates; else the statements F follow with the call's result
Try(a, F(_)) == IF a.err # "" THEN a ELSE F(a)

\* the mappings and handles the reader holds in its four collections
held(r) == Len(r.data_mms) + Cardinality(r.data_fhs) + Len(r.index_mm) + Len(r.index_fh)

\* a faulty close, which keeps the cursor
close_keep_cursor(r) ==
    [r EXCEPT !.open_resources = @ - held(r),
              !.data_mms = <<>>, !.data_fhs = {}, !.index_mm = <<>>, !.index_fh = <<>>,
              !.max_index = 0, !.date = NoDate, !.cycle_dir = None,
              !.full_index_base = NoNumber]

\* a faulty close, which empties the table of data file handles without closing them
close_dropping_handles(r) ==
    [r EXCEPT !.open_resources = @ - (held(r) - Cardinality(r.data_fhs)),
              !.data_mms = <<>>, !.data_fhs = {}, !.index_mm = <<>>, !.index_fh = <<>>,
              !.max_index = 0, !.index = 0, !.date = NoDate, !.cycle_dir = None,
              !.full_index_base = NoNumber]

\* every mapping and handle popped or listed is closed (open_resources counts the
\* mappings and handles opened and not yet closed), then the fields are reset
close(r) ==
    [r EXCEPT !.open_resources = @ - held(r),
              !.data_mms = <<>>, !.data_fhs = {}, !.index_mm = <<>>, !.index_fh = <<>>,
              !.max_index = 0, !.index = 0, !.date = NoDate, !.cycle_dir = None,
              !.full_index_base = NoNumber]

\* a faulty _update_date_and_index_base, which leaves the base of the cycle left
keep_index_base(r, date) == [r EXCEPT !.date = date]

update_date_and_index_base(r, date) ==
    [r EXCEPT !.date = date, !.full_index_base = to_full_index(date, 0)]

update_cycle_dir(r, fp) ==
    update_date_and_index_base([close(r) EXCEPT !.cycle_dir = fp],
        Date(IntOf(SubSeq(fp, 1, 4)), IntOf(SubSeq(fp, 5, 6)), IntOf(SubSeq(fp, 7, 8))))

\* self._update_cycle_dir(fp) as a call: the name's date is parsed after close() and
\* after the directory is set
call_update_cycle_dir(r, fp, val) ==
    IF date_parses(fp) THEN Ok(update_cycle_dir(r, fp), val)
    ELSE Raise([close(r) EXCEPT !.cycle_dir = fp], "ValueError")

\* date = NoDate is the call without a date
try_set_cycle_dir(r, date) ==
    Let(sorted_listdir, LAMBDA names :
    Let({i \in 1..Len(names) :
            /\ ~(date # NoDate /\ StrLess(names[i], date_str(date)))
            /\ match_cycle_name(names[i])
            /\ isdir(names[i])}, LAMBDA hits :
        IF hits = {} THEN Raise(r, "NoData")
        ELSE call_update_cycle_dir(r, names[CHOOSE i \in hits : \A j \in hits : i <= j], None)))

\* self._try_set_cycle_dir() when no cycle directory is set
ensure_cycle_dir(r) == IF r.cycle_dir = None THEN try_set_cycle_dir(r, NoDate) ELSE Ok(r, None)

try_next_date(r) ==
    Try(ensure_cycle_dir(r), LAMBDA set :
    Let(sorted_listdir, LAMBDA names :
    Let({i \in 1..Len(names) : names[i] = set.r.cycle_dir}, LAMBDA cur :
        IF \E i \in cur : i < Len(names)
        THEN call_update_cycle_dir(set.r, names[(CHOOSE i \in cur : TRUE) + 1], TRUE)
        ELSE Ok(set.r, FALSE))))

index_file_exists(dir, num) == dir \in DOMAIN cycles /\ num \in cycles[dir].index

open_next_index(r) ==
    Try(ensure_cycle_dir(r), LAMBDA set :
    Let([dir |-> set.r.cycle_dir, num |-> Len(r.index_fh)], LAMBDA mm :
        IF isfile(mm.dir) THEN Raise(set.r, "NotADirectoryError")
        ELSE IF ~index_file_exists(mm.dir, mm.num) THEN Raise(set.r, "NoChronicleForDate")
        ELSE Ok([set.r EXCEPT !.index_fh = Append(@, mm), !.index_mm = Append(@, mm),
                              !.open_resources = @ + 2], None)))

\* a faulty _get_index_value, which reads every slot from the first index file
get_index_value_first_file(r, index_offset) ==
    Let(BitsOf(index_offset * 8), LAMBDA bytes :
    Try(IF r.index_mm = <<>> THEN open_next_index(r) ELSE Ok(r, None), LAMBDA opened :
        Ok(opened.r, read_mmap(opened.r.index_mm[1],
                               ValueOf(BitAnd(bytes, INDEX_OFFSET_MASK))))))

\* the chain is extended by one file at most before it is subscripted
get_index_value(r, index_offset) ==
    Let(BitsOf(index_offset * 8), LAMBDA bytes :
    Let(ValueOf(ShiftRight(bytes, FILENUM_FROM_INDEX_SHIFT)), LAMBDA filenum :
    Try(IF filenum >= Len(r.index_mm) THEN open_next_index(r) ELSE Ok(r, None), LAMBDA opened :
        IF filenum >= Len(opened.r.index_mm) THEN Raise(opened.r, "IndexError")
        ELSE Ok(opened.r, read_mmap(opened.r.index_mm[filenum + 1],
                                    ValueOf(BitAnd(bytes, INDEX_OFFSET_MASK)))))))

data_file_exists(dir, filenum, thread) ==
    dir \in DOMAIN cycles /\ <<thread, filenum>> \in DOMAIN cycles[dir].data

\* a faulty _open_data_file, which reports a missing data file as NoData
open_data_file_no_data(r, filenum, thread) ==
    Try(IF r.cycle_dir = None THEN try_next_date(r) ELSE Ok(r, TRUE), LAMBDA nd :
        IF ~nd.val \/ ~data_file_exists(nd.r.cycle_dir, filenum, thread) THEN Raise(nd.r, "NoData")
        ELSE Ok(nd.r, [dir |-> nd.r.cycle_dir, filenum |-> filenum, thread |-> thread]))

\* open(os.path.join(self._cycle_dir, 'data-%s-%s' % (thread, filenum)), 'rb')
open_data_file(r, filenum, thread) ==
    Try(IF r.cycle_dir = None THEN try_next_date(r) ELSE Ok(r, TRUE), LAMBDA nd :
        IF ~nd.val THEN Raise(nd.r, "NoData")
        ELSE IF ~data_file_exists(nd.r.cycle_dir, filenum, thread) THEN Raise(nd.r, "CorruptData")
        ELSE Ok(nd.r, [dir |-> nd.r.cycle_dir, filenum |-> filenum, thread |-> thread]))

\* the mapping returned is the mapping of the whole file behind the handle
open_data_memory_map(r, filenum, thread) ==
    Let({fh \in r.data_fhs : fh.filenum = filenum /\ fh.thread = thread}, LAMBDA have :
    Try(IF have = {} THEN open_data_file(r, filenum, thread)
        ELSE Ok(r, CHOOSE h \in have : TRUE), LAMBDA fh :
        Ok([fh.r EXCEPT !.data_fhs = @ \cup {fh.val},
                        !.open_resources = @ + (IF have = {} THEN 2 ELSE 1)], fh.val)))

\* a faulty _get_data_memory_map, which returns the mapping it evicts and closes
get_data_memory_map_stale(r, filenum, thread) ==
    Let({i \in 1..Len(r.data_mms) :
            r.data_mms[i].filenum = filenum /\ r.data_mms[i].thread = thread}, LAMBDA hit :
        IF hit # {} THEN Ok(r, r.data_mms[CHOOSE i \in hit : TRUE])
        ELSE Try(open_data_memory_map(r, filenum, thread), LAMBDA fm :
             Let([fm.r EXCEPT !.data_mms = Append(@, fm.val)], LAMBDA ins :
                 IF r.max_maps # 0 /\ Len(ins.data_mms) > r.max_maps
                 THEN Ok([ins EXCEPT !.data_mms = Tail(@), !.open_resources = @ - 1],
                         Head(ins.data_mms))
                 ELSE Ok(ins, fm.val))))

\* a faulty _get_data_memory_map, which moves the entry of a hit to the newest place
get_data_memory_map_lru(r, filenum, thread) ==
    Let({i \in 1..Len(r.data_mms) :
            r.data_mms[i].filenum = filenum /\ r.data_mms[i].thread = thread}, LAMBDA hit :
        IF hit # {}
        THEN Let(CHOOSE i \in hit : TRUE, LAMBDA h :
                 Ok([r EXCEPT !.data_mms = Append(SelectSeq(@, LAMBDA m : m # r.data_mms[h]),
                                                  r.data_mms[h])], r.data_mms[h]))
        ELSE Try(open_data_memory_map(r, filenum, thread), LAMBDA fm :
             Let([fm.r EXCEPT !.data_mms = Append(@, fm.val)], LAMBDA ins :
                 IF r.max_maps # 0 /\ Len(ins.data_mms) > r.max_maps
                 THEN Ok([ins EXCEPT !.data_mms = Tail(@), !.open_resources = @ - 1], fm.val)
                 ELSE Ok(ins, fm.val))))

\* a faulty _get_data_memory_map, which evicts the newest entry: popitem(last=True)
get_data_memory_map_pop_last(r, filenum, thread) ==
    Let({i \in 1..Len(r.data_mms) :
            r.data_mms[i].filenum = filenum /\ r.data_mms[i].thread = thread}, LAMBDA hit :
        IF hit # {} THEN Ok(r, r.data_mms[CHOOSE i \in hit : TRUE])
        ELSE Try(open_data_memory_map(r, filenum, thread), LAMBDA fm :
             Let([fm.r EXCEPT !.data_mms = Append(@, fm.val)], LAMBDA ins :
                 IF r.max_maps # 0 /\ Len(ins.data_mms) > r.max_maps
                 THEN Ok([ins EXCEPT !.data_mms = SubSeq(@, 1, Len(@) - 1),
                                     !.open_resources = @ - 1], fm.val)
                 ELSE Ok(ins, fm.val))))

get_data_memory_map(r, filenum, thread) ==
    Let({i \in 1..Len(r.data_mms) :
            r.data_mms[i].filenum = filenum /\ r.data_mms[i].thread = thread}, LAMBDA hit :
        IF hit # {} THEN Ok(r, r.data_mms[CHOOSE i \in hit : TRUE])
        ELSE Try(open_data_memory_map(r, filenum, thread), LAMBDA fm :
             Let([fm.r EXCEPT !.data_mms = Append(@, fm.val)], LAMBDA ins :
                 IF r.max_maps # 0 /\ Len(ins.data_mms) > r.max_maps
                 THEN Ok([ins EXCEPT !.data_mms = Tail(@), !.open_resources = @ - 1], fm.val)
                 ELSE Ok(ins, fm.val))))

\* how a pass of _next_position's loop ends: the loop is left, or it continues
Leave(res) == [r |-> res.r, err |-> res.err, val |-> res.val, again |-> FALSE]
Continue(r) == [r |-> r, err |-> "", val |-> None, again |-> TRUE]

\* the head of the loop: val = self._get_index_value(self._index), and its fields
read_slot(r) ==
    Try(get_index_value(r, r.index), LAMBDA g : Ok(g.r, decode(g.r, g.val)))

\* `if not pos:` the rollover test, and what follows it when there is no rollover
check_rollover(r) ==
    Let(IF r.date # today THEN try_next_date(r) ELSE Ok(r, FALSE), LAMBDA roll :
        IF roll.err # "" THEN Leave(roll)
        ELSE IF roll.val THEN Continue(roll.r)
        ELSE IF r.polling_interval = NoPolling THEN Leave(Raise(roll.r, "NoData"))
        ELSE Continue(roll.r))

\* a faulty end of _next_position, which advances the cursor by two
take_slot_twice(r, dec) ==
    Ok([r EXCEPT !.index = @ + 2],
       [filenum |-> ValueOf(dec.filenum), pos |-> ValueOf(dec.pos),
        thread |-> ValueOf(dec.thread)])

\* after the loop: the cursor advances and (filenum, pos, thread) is returned
take_slot(r, dec) ==
    Ok([r EXCEPT !.index = @ + 1],
       [filenum |-> ValueOf(dec.filenum), pos |-> ValueOf(dec.pos),
        thread |-> ValueOf(dec.thread)])

\* _next_position run to its end while nothing else runs (non-blocking mode)
RECURSIVE next_position(_)
next_position(r) ==
    Try(read_slot(r), LAMBDA s :
        IF s.val.position # <<>> THEN take_slot(s.r, s.val)
        ELSE Let(check_rollover(s.r), LAMBDA c :
                 IF c.again THEN next_position(c.r) ELSE Raise(c.r, c.err)))

\* self._index + self._full_index_base
index_plus_base(r, index) ==
    IF r.full_index_base = NoNumber THEN Raise(r, "TypeError")
    ELSE Ok(r, Plus(BitsOf(index), r.full_index_base))

get_index(r) == index_plus_base(r, r.index)

get_raw_bytes(r, filenum, pos, thread) ==
    Try(get_data_memory_map(r, filenum, thread), LAMBDA mm :
        Ok(mm.r, [offset |-> pos, mm |-> mm.val]))

RECURSIVE end_index_scan(_, _)
end_index_scan(r, index) ==
    Try(get_index_value(r, index), LAMBDA g :
        IF BitAnd(g.val, r.index_data_offset_mask) = <<>>
        THEN index_plus_base([g.r EXCEPT !.max_index = index], index)
        ELSE end_index_scan(g.r, index + 1))

get_end_index_today(r) == end_index_scan(r, Max(r.max_index, r.index))

set_index(r, full_index) ==
    Let(from_full_index(full_index), LAMBDA di :
    Try(IF r.date # di[1] THEN try_set_cycle_dir(r, di[1]) ELSE Ok(r, None), LAMBDA set :
        Ok([set.r EXCEPT !.index = di[2]], None)))

set_date(r, date) == try_set_cycle_dir(r, date)

RECURSIVE set_end_loop(_)
set_end_loop(r) ==
    Try(try_next_date(r), LAMBDA t : IF t.val THEN set_end_loop(t.r) ELSE t)

\* a faulty set_start_index_today, which restarts the reader as close() does
set_start_by_close(r) == Ok(close(r), None)

set_start_index_today(r) == Ok([r EXCEPT !.index = 0], None)

set_end_index_today(r) ==
    Try(get_end_index_today(r), LAMBDA e : set_index(e.r, e.val))

set_end(r) == Try(set_end_loop(r), LAMBDA t : set_end_index_today(t.r))

DATA_FILE_SIZE == 2 ^ DATA_FILE_BITS

\* the fields as __init__ assigns them before it looks at date and full_index
new_fields(polling_interval, max_mapped_memory, thread_id_bits) ==
    masks(thread_id_bits) @@
    [polling_interval |-> polling_interval, thread_id_bits |-> thread_id_bits,
     max_maps |-> IF max_mapped_memory \in {NoMemory, 0} THEN 0
                  ELSE max_mapped_memory \div DATA_FILE_SIZE,
     max_index |-> 0, index |-> 0,
     date |-> NoDate, cycle_dir |-> None, full_index_base |-> NoNumber, index_fh |-> <<>>,
     index_mm |-> <<>>, data_fhs |-> {}, data_mms |-> <<>>, open_resources |-> 0]

\* __init__; max_mapped_memory = NoMemory and full_index = <<>> stand for None, and
\* max_maps = 0 for the None that `if max_mapped_memory` gives for None and for 0
new_reader(polling_interval, date, full_index, max_mapped_memory, thread_id_bits) ==
    Let(new_fields(polling_interval, max_mapped_memory, thread_id_bits), LAMBDA r0 :
    Let(IF full_index # <<>> THEN from_full_index(full_index) ELSE <<date, 0>>, LAMBDA di :
        IF max_mapped_memory \notin {NoMemory, 0} /\ r0.max_maps < 1
        THEN Raise(r0, "ConfigError")
        ELSE IF full_index # <<>> /\ date # NoDate THEN Raise(r0, "InvalidArgumentError")
        ELSE IF di[1] = NoDate
             THEN Let(try_set_cycle_dir(r0, NoDate), LAMBDA set :
                      IF set.err = "NoData" THEN Ok(r0, None) ELSE set)
             ELSE Ok([update_cycle_dir(r0, date_str(di[1])) EXCEPT !.index = di[2]], None)))

-----------------------------------------------------------------------------
(* The bounds of the model.                                                *)

NumWriters == 2      \* appender threads
MaxAppends == 2      \* records each appender writes
MaxTicks == 2        \* midnights the clock passes
MaxSeek == 2         \* the largest intra-day index given to set_index and the constructor

DefaultThreadIdBits == 16
StartDate == Date(2014, 12, 31)

WriterIds == 1..NumWriters
ModelDates == {fromtimestamp(timestamp(StartDate) + k * 86400) : k \in 0..MaxTicks}
Pollings == {NoPolling, 0}

-----------------------------------------------------------------------------
(* The writers (VanillaChronicleWriter and its appenders).                 *)

EmptyMap == [x \in {} |-> 0]
NewCycle == [index |-> {}, slots |-> <<>>, log |-> <<>>, data |-> EmptyMap]

\* a faulty payload store, which leaves the data file as it was
unstored(data, key, file, off, payload) == data

\* the data files of a cycle directory after a payload is stored at an offset of one
stored(data, key, file, off, payload) ==
    [k \in DOMAIN data \cup {key} |->
        IF k = key THEN [o \in DOMAIN file \cup {off} |-> IF o = off THEN payload ELSE file[o]]
        ELSE data[k]]

\* get_appender, the writes and the start of finish: the cycle directory and the
\* thread's data file are created when missing, a span is reserved after the
\* allocator word and the payload is stored
WriterStart(w) ==
    /\ writers[w].pc = "idle" /\ writers[w].n < MaxAppends
    /\ \E date \in {today} : \E dir \in {date_str(date)} :
       \E cyc \in {IF dir \in DOMAIN cycles THEN cycles[dir] ELSE NewCycle} :
       \E file \in {IF <<w, 0>> \in DOMAIN cyc.data THEN cyc.data[<<w, 0>>] ELSE EmptyMap} :
       \E off \in {8 + 8 * Cardinality(DOMAIN file)} :
          /\ base_dir' = base_dir \cup {[name |-> dir, isdir |-> TRUE]}
          /\ cycles' = [d \in DOMAIN cycles \cup {dir} |->
                           IF d = dir THEN [cyc EXCEPT !.data = stored(cyc.data, <<w, 0>>, file, off,
                                                                      [id |-> w, i |-> writers[w].n])]
                           ELSE cycles[d]]
          /\ writers' = [writers EXCEPT ![w] =
                 [pc |-> "publish", dir |-> dir, date |-> date, off |-> off,
                  ptr |-> Len(cyc.slots), n |-> @.n + 1]]
    /\ UNCHANGED <<clock, rdvars, codecvars>>

\* the index file holding the slot the writer is about to claim is created, zero-filled
WriterCreateIndex(w) ==
    /\ writers[w].pc = "publish" /\ writers[w].date = today
    /\ writers[w].ptr \div SlotsPerIndexFile \notin cycles[writers[w].dir].index
    /\ cycles' = [cycles EXCEPT ![writers[w].dir].index = @ \cup {writers[w].ptr \div SlotsPerIndexFile}]
    /\ UNCHANGED <<clock, base_dir, writers, rdvars, codecvars>>

\* cas_word(slot ptr, expected 0, new word): the slot is claimed when it is still zero,
\* else the writer moves on to the next slot
WriterCAS(w) ==
    /\ writers[w].pc = "publish" /\ writers[w].date = today
    /\ writers[w].ptr \div SlotsPerIndexFile \in cycles[writers[w].dir].index
    /\ IF writers[w].ptr = Len(cycles[writers[w].dir].slots)
       THEN /\ cycles' = [cycles EXCEPT ![writers[w].dir] =
                   [@ EXCEPT !.slots = Append(@, pack_slot(DefaultThreadIdBits, BitsOf(w),
                                                           BitsOf(writers[w].off))),
                             !.log = Append(@, [filenum |-> 0, pos |-> writers[w].off,
                                                thread |-> w])]]
            /\ writers' = [writers EXCEPT ![w].pc = "idle"]
       ELSE /\ writers' = [writers EXCEPT ![w].ptr = @ + 1]
            /\ UNCHANGED cycles
    /\ UNCHANGED <<clock, base_dir, rdvars, codecvars>>

\* PartialWriteLostOnRollover: midnight passed before the record was published
WriterRollover(w) ==
    /\ writers[w].pc = "publish" /\ writers[w].date # today
    /\ writers' = [writers EXCEPT ![w].pc = "idle"]
    /\ UNCHANGED <<clock, base_dir, cycles, rdvars, codecvars>>

Tick ==
    /\ clock < timestamp(StartDate) + MaxTicks * 86400
    /\ clock' = clock + 86400
    /\ UNCHANGED <<base_dir, cycles, writers, rdvars, codecvars>>

-----------------------------------------------------------------------------------------------------------------------------------------------------
(* The reader's calls.  A call is one step, except _next_position while     *)
(* writers run: then reading the slot and testing for a rollover are two    *)
(* steps, as the writers and the clock may act between them.                *)

Idle == [op |-> "idle", at |-> "idle"]
NoRead == [dir |-> None, slot |-> -1]
NoTrail == [ok |-> FALSE, recs |-> <<>>]
Result(op, arg, res) == [op |-> op, arg |-> arg, err |-> res.err, val |-> res.val]

Construct(polling_interval, date, full_index) ==
    /\ pc = Idle
    /\ \E res \in {new_reader(polling_interval, date, full_index, NoMemory, DefaultThreadIdBits)} :
          /\ ret' = Result("construct", <<date, full_index>>, res)
          /\ IF res.err = ""
             THEN /\ reader' = res.r
                  /\ last_read' = NoRead
                  /\ trail' = [ok |-> date = NoDate /\ full_index = <<>>, recs |-> <<>>]
             ELSE UNCHANGED <<reader, last_read, trail>>
    /\ UNCHANGED <<pc, envvars, codecvars>>

\* what follows the loop in next_position, next_index and next_raw_bytes
after_position(op, p) ==
    IF op = "next_index" THEN index_plus_base(p.r, p.r.index)
    ELSE IF op = "next_raw_bytes" THEN get_raw_bytes(p.r, p.val.filenum, p.val.pos, p.val.thread)
    ELSE Ok(p.r, p.val)

\* the call ends with an exception
Raises(op, res) ==
    /\ reader' = res.r
    /\ pc' = Idle
    /\ ret' = Result(op, None, res)
    /\ UNCHANGED <<last_read, trail>>

\* the call ends after _next_position returned p
Returns(op, p) ==
    \E res \in {after_position(op, p)} :
       /\ reader' = res.r
       /\ pc' = Idle
       /\ ret' = Result(op, None, res)
       /\ last_read' = [dir |-> p.r.cycle_dir, slot |-> p.r.index - 1]
       /\ trail' = IF trail.ok /\ res.err = ""
                   THEN [trail EXCEPT !.recs = Append(@, [dir |-> p.r.cycle_dir,
                             filenum |-> p.val.filenum, pos |-> p.val.pos,
                             thread |-> p.val.thread])]
                   ELSE NoTrail

\* the slot at the cursor is read: a published one ends the call
ReadSlot(op) ==
    \E s \in {read_slot(reader)} :
       IF s.err # "" THEN Raises(op, s)
       ELSE IF s.val.position # <<>> THEN Returns(op, take_slot(s.r, s.val))
       ELSE /\ reader' = s.r
            /\ pc' = [op |-> op, at |-> "check"]
            /\ UNCHANGED <<ret, last_read, trail>>

NextStart(op) ==
    /\ pc = Idle
    /\ ReadSlot(op)
    /\ UNCHANGED <<envvars, codecvars>>

NextSlot ==
    /\ pc.at = "slot"
    /\ ReadSlot(pc.op)
    /\ UNCHANGED <<envvars, codecvars>>

\* the slot read was unpublished: rollover, NoData, or another pass
NextCheck ==
    /\ pc.at = "check"
    /\ \E c \in {check_rollover(reader)} :
          IF c.again
          THEN /\ reader' = c.r
               /\ pc' = [pc EXCEPT !.at = "slot"]
               /\ UNCHANGED <<ret, last_read, trail>>
          ELSE Raises(pc.op, c)
    /\ UNCHANGED <<envvars, codecvars>>

\* a whole non-blocking call in one step
NextCall(op) ==
    /\ pc = Idle
    /\ reader.polling_interval = NoPolling
    /\ \E p \in {next_position(reader)} :
          IF p.err # "" THEN Raises(op, p) ELSE Returns(op, p)
    /\ UNCHANGED <<envvars, codecvars>>

\* a call that reads the cursor
Query(op, res) ==
    /\ pc = Idle
    /\ reader' = res.r
    /\ ret' = Result(op, None, res)
    /\ UNCHANGED <<pc, last_read, trail, envvars, codecvars>>

\* a call that positions the cursor
Position(op, arg, res) ==
    /\ pc = Idle
    /\ reader' = res.r
    /\ ret' = Result(op, arg, res)
    /\ last_read' = NoRead
    /\ trail' = NoTrail
    /\ UNCHANGED <<pc, envvars, codecvars>>

GetIndex == Query("get_index", get_index(reader))
GetEndIndexToday == Query("get_end_index_today", get_end_index_today(reader))
SetIndex(full_index) == Position("set_index", full_index, set_index(reader, full_index))
SetDate(date) == Position("set_date", date, set_date(reader, date))
SetStartIndexToday == Position("set_start_index_today", None, set_start_index_today(reader))
SetEndIndexToday == Position("set_end_index_today", None, set_end_index_today(reader))
SetEnd == Position("set_end", None, set_end(reader))
Close == Position("close", None, Ok(close(reader), None))

-----------------------------------------------------------------------------
(* The specification: writers appending over midnights, and one reader      *)
(* tailing the chronicle from its start.                                    *)

NextOps == {"next_index", "next_raw_bytes"}

NoWriter == [pc |-> "idle", dir |-> None, date |-> NoDate, off |-> 0, ptr |-> 0, n |-> 0]
NoCas == cmap = <<>> /\ cthreads = <<>>
NoCodec == cin = NoResult /\ cout = NoResult /\ NoCas
Constructed == [op |-> "construct", arg |-> None, err |-> "", val |-> None]

Init ==
    /\ clock = timestamp(StartDate)
    /\ base_dir = {}
    /\ cycles = EmptyMap
    /\ writers = [w \in WriterIds |-> NoWriter]
    /\ \E p \in Pollings : reader = new_reader(p, NoDate, <<>>, NoMemory, DefaultThreadIdBits).r
    /\ pc = Idle
    /\ ret = Constructed
    /\ last_read = NoRead
    /\ trail = [ok |-> TRUE, recs |-> <<>>]
    /\ NoCodec

Next ==
    \/ \E w \in WriterIds : WriterStart(w)
    \/ \E w \in WriterIds : WriterCreateIndex(w)
    \/ \E w \in WriterIds : WriterCAS(w)
    \/ \E w \in WriterIds : WriterRollover(w)
    \/ Tick
    \/ \E op \in NextOps : NextStart(op)
    \/ NextSlot
    \/ NextCheck

Spec == Init /\ [][Next]_vars

-----------------------------------------------------------------------------
(* The positioning specification: a chronicle the writers have left, and a  *)
(* non-blocking reader on which every call may follow every other.          *)

NoCycle == -1                       \* a day without a cycle directory
LongDay == INDEX_FILE_SIZE + 1      \* records of a day that outgrows the index mask

\* the thread that wrote the j-th record of a day and the record's offset in its data
\* file, the writers taking turns
ThreadOf(j) == 1 + ((j - 1) % NumWriters)
OffsetOf(j) == 8 + 8 * ((j - 1) \div NumWriters)

\* a cycle directory after n records; its first index file and data file exist even
\* when the only write into it was lost at midnight
WrittenCycle(n) ==
    [index |-> 0..((Max(n, 1) - 1) \div SlotsPerIndexFile),
     slots |-> [j \in 1..n |-> pack_slot(DefaultThreadIdBits, BitsOf(ThreadOf(j)),
                                         BitsOf(OffsetOf(j)))],
     log   |-> [j \in 1..n |-> [filenum |-> 0, pos |-> OffsetOf(j), thread |-> ThreadOf(j)]],
     data  |-> [k \in {<<ThreadOf(j), 0>> : j \in 1..Max(n, 1)} |->
                   [o \in {OffsetOf(j) : j \in {i \in 1..Max(n, 1) : ThreadOf(i) = k[1]}} |->
                       [id |-> k[1], i |-> (o - 8) \div 8]]]]

DayOf(k) == fromtimestamp(timestamp(StartDate) + (k - 1) * 86400)

\* the records written on the successive days from StartDate
Shapes == {<<SlotsPerIndexFile + 1, NoCycle, 1>>, <<0, 1, NoCycle>>, <<1, NoCycle, 0>>}

SeekIndexes == 0..MaxSeek \cup {INDEX_FILE_SIZE}
SeekTargets == {to_full_index(d, i) : d \in ModelDates, i \in SeekIndexes}
SeekOps == {"next_position", "next_index", "next_raw_bytes"}

InitSeek ==
    /\ \E shape \in Shapes : \E days \in {{k \in DOMAIN shape : shape[k] # NoCycle}} :
          /\ clock = timestamp(DayOf(CHOOSE k \in days : \A j \in days : j <= k))
          /\ base_dir = {[name |-> date_str(DayOf(k)), isdir |-> TRUE] : k \in days}
          /\ cycles = [dir \in {date_str(DayOf(k)) : k \in days} |->
                          WrittenCycle(shape[CHOOSE k \in days : date_str(DayOf(k)) = dir])]
    /\ writers = [w \in WriterIds |-> [NoWriter EXCEPT !.n = MaxAppends]]
    /\ reader = new_reader(NoPolling, NoDate, <<>>, NoMemory, DefaultThreadIdBits).r
    /\ pc = Idle
    /\ ret = Constructed
    /\ last_read = NoRead
    /\ trail = NoTrail
    /\ NoCodec

NextSeek ==
    \/ Tick
    \/ \E date \in ModelDates \cup {NoDate} : Construct(NoPolling, date, <<>>)
    \/ \E full_index \in SeekTargets : Construct(NoPolling, NoDate, full_index)
    \/ \E op \in SeekOps : NextCall(op)
    \/ GetIndex
    \/ GetEndIndexToday
    \/ \E full_index \in SeekTargets : SetIndex(full_index)
    \/ \E date \in ModelDates : SetDate(date)
    \/ SetStartIndexToday
    \/ SetEndIndexToday
    \/ SetEnd
    \/ Close

SpecSeek == InitSeek /\ [][NextSeek]_vars

-----
(* The codec specification: the pure functions applied to drawn arguments. *)

MinThreadIdBits == 14
MaxThreadIdBits == 18

CodecDates ==
    {Date(1970, 1, 1), Date(2000, 2, 29), Date(2014, 12, 31), Date(2015, 1, 1),
     Date(2015, 1, 2), Date(2015, 4, 16), Date(2037, 12, 31)}

\* intra-day indexes within the model's index mask, and past the format's
CodecIndexes == {0, 1, 10, INDEX_FILE_SIZE - 1, 2 ^ 24, 2 ^ 24 + 10}

CodecThreads(T) == {<<>>, BitsOf(1), BitsOf(2), Rep(1, T)}

CodecPositions(T) ==
    {<<>>, BitsOf(8), Rep(1, DATA_FILE_BITS), ShiftLeft(BitsOf(1), DATA_FILE_BITS),
     Plus(ShiftLeft(BitsOf(3), DATA_FILE_BITS), BitsOf(24)), Rep(1, WORD_BITS - T)}

CodecInputs ==
    [kind : {"full"}, date : CodecDates, index : CodecIndexes]
    \cup UNION {[kind : {"slot"}, T : {T}, thread : CodecThreads(T),
                 position : CodecPositions(T)] : T \in MinThreadIdBits..MaxThreadIdBits}

InitCodec ==
    /\ cin \in CodecInputs /\ cout = NoResult /\ NoCas
    /\ clock = timestamp(StartDate)
    /\ base_dir = {}
    /\ cycles = EmptyMap
    /\ writers = [w \in WriterIds |-> NoWriter]
    /\ reader = new_reader(NoPolling, NoDate, <<>>, NoMemory, DefaultThreadIdBits).r
    /\ pc = Idle
    /\ ret = Constructed
    /\ last_read = NoRead
    /\ trail = NoTrail

ApplyFullIndex ==
    /\ cin.kind = "full" /\ ~cout.done
    /\ \E full \in {to_full_index(cin.date, cin.index)} :
          cout' = [done |-> TRUE, full |-> full, back |-> from_full_index(full)]
    /\ UNCHANGED <<cin, cmap, cthreads, envvars, rdvars>>

ApplySlot ==
    /\ cin.kind = "slot" /\ ~cout.done
    /\ \E val \in {pack_slot(cin.T, cin.thread, cin.position)} :
          cout' = [done |-> TRUE, val |-> val, dec |-> decode(masks(cin.T), val)]
    /\ UNCHANGED <<cin, cmap, cthreads, envvars, rdvars>>

NextCodec == ApplyFullIndex \/ ApplySlot

SpecCodec == InitCodec /\ [][NextCodec]_vars

-----------------------------------------------------------------------------
(* The long-day specification: one cycle holding LongDay records, read from *)
(* its start, with get_index and set_index between the reads.               *)

LongTargets == {to_full_index(StartDate, i) : i \in 0..LongDay}

InitLong ==
    /\ clock = timestamp(StartDate)
    /\ base_dir = {[name |-> date_str(StartDate), isdir |-> TRUE]}
    /\ cycles = [dir \in {date_str(StartDate)} |-> WrittenCycle(LongDay)]
    /\ writers = [w \in WriterIds |-> [NoWriter EXCEPT !.n = MaxAppends]]
    /\ reader = new_reader(NoPolling, NoDate, <<>>, NoMemory, DefaultThreadIdBits).r
    /\ pc = Idle
    /\ ret = Constructed
    /\ last_read = NoRead
    /\ trail = [ok |-> TRUE, recs |-> <<>>]
    /\ NoCodec

NextLong ==
    \/ NextCall("next_position")
    \/ GetIndex
    \/ \E full_index \in LongTargets : SetIndex(full_index)

SpecLong == InitLong /\ [][NextLong]_vars

-----------------------------------------------------------------------------
(* The mapping specification: a written chronicle read from its start by a  *)
(* reader of every max_mapped_memory setting (test_files).                  *)

\* max_mapped_memory: None, one data file, 1024*1024*1024
MapMemories == {NoMemory, DATA_FILE_SIZE, 1024 * 1024 * 1024}

MapShapes == Shapes \cup {<<SlotsPerIndexFile + 1, 1, SlotsPerIndexFile + 1>>}

\* the records of a day on which the first thread's data file filled up: three data
\* files, the first of them named again after the second
ManyFilesLog ==
    <<[filenum |-> 0, pos |-> 8, thread |-> 1], [filenum |-> 0, pos |-> 8, thread |-> 2],
      [filenum |-> 0, pos |-> 16, thread |-> 1], [filenum |-> 1, pos |-> 8, thread |-> 1],
      [filenum |-> 0, pos |-> 16, thread |-> 2]>>

ManyFilesCycle ==
    [index |-> 0..((Len(ManyFilesLog) - 1) \div SlotsPerIndexFile),
     slots |-> [j \in 1..Len(ManyFilesLog) |->
                   pack_slot(DefaultThreadIdBits, BitsOf(ManyFilesLog[j].thread),
                             Plus(ShiftLeft(BitsOf(ManyFilesLog[j].filenum), FILENUM_FROM_POS_SHIFT),
                                  BitsOf(ManyFilesLog[j].pos)))],
     log   |-> ManyFilesLog,
     data  |-> [k \in {<<ManyFilesLog[j].thread, ManyFilesLog[j].filenum>> :
                          j \in 1..Len(ManyFilesLog)} |->
                   [o \in {ManyFilesLog[j].pos : j \in {i \in 1..Len(ManyFilesLog) :
                               <<ManyFilesLog[i].thread, ManyFilesLog[i].filenum>> = k}} |->
                       [id |-> k[1], i |-> (o - 8) \div 8]]]]

\* the cycle directories of the chronicles read
MapChronicles ==
    {[dir \in {date_str(DayOf(k)) : k \in {j \in DOMAIN shape : shape[j] # NoCycle}} |->
         WrittenCycle(shape[CHOOSE k \in DOMAIN shape : date_str(DayOf(k)) = dir])] :
       shape \in MapShapes}
    \cup {[dir \in {date_str(StartDate)} |-> ManyFilesCycle]}

InitMaps ==
    /\ \E chronicle \in MapChronicles :
          /\ clock = timestamp(DateOf(CHOOSE d \in DOMAIN chronicle :
                                         \A e \in DOMAIN chronicle : ~StrLess(d, e)))
          /\ base_dir = {[name |-> dir, isdir |-> TRUE] : dir \in DOMAIN chronicle}
          /\ cycles = chronicle
    /\ writers = [w \in WriterIds |-> [NoWriter EXCEPT !.n = MaxAppends]]
    /\ \E m \in MapMemories :
          reader = new_reader(NoPolling, NoDate, <<>>, m, DefaultThreadIdBits).r
    /\ pc = Idle
    /\ ret = Constructed
    /\ last_read = NoRead
    /\ trail = [ok |-> TRUE, recs |-> <<>>]
    /\ NoCodec

\* max_mapped_memory as a caller may set it: None, and byte counts below, at and above
\* the size of one data file
ConfigMemories == MapMemories \cup {0, 1, DATA_FILE_SIZE - 1, 2 * DATA_FILE_SIZE + 1}

\* a reader constructed with max_mapped_memory, which replaces the reader unless the
\* constructor raises
ConstructBounded(max_mapped_memory) ==
    /\ pc = Idle
    /\ \E res \in {new_reader(NoPolling, NoDate, <<>>, max_mapped_memory, DefaultThreadIdBits)} :
          /\ ret' = Result("construct", [max_mapped_memory |-> max_mapped_memory], res)
          /\ IF res.err = ""
             THEN /\ reader' = res.r
                  /\ last_read' = NoRead
                  /\ trail' = [ok |-> TRUE, recs |-> <<>>]
             ELSE UNCHANGED <<reader, last_read, trail>>
    /\ UNCHANGED <<pc, envvars, codecvars>>

NextMaps ==
    \/ Tick
    \/ \E m \in ConfigMemories : ConstructBounded(m)
    \/ \E op \in NextOps : NextCall(op)
    \/ GetEndIndexToday
    \/ SetStartIndexToday
    \/ Close

SpecMaps == InitMaps /\ [][NextMaps]_vars

-----------------------------------------------------------------------------
(* The CAS specification: the CMapThreads of TestCMapWrite.test_threads,    *)
(* each trying every word of a zeroed mapping once, in any interleaving.    *)

num_threads == 2
CasWords == 6        \* the words of the mapping (NUM_WORDS in the test)

CMapThreads == 1..num_threads

\* a faulty try_atomic_write_mmap, which stores without comparing
try_blind_write_mmap(mm, offset, expected, new) ==
    [mm |-> [mm EXCEPT ![offset \div 8 + 1] = new], prev |-> expected]

\* try_atomic_write_mmap(mm, offset, expected, new): one atomic compare-and-swap of the
\* word at the offset, which returns the word's previous value
try_atomic_write_mmap(mm, offset, expected, new) ==
    [mm |-> IF mm[offset \div 8 + 1] = expected THEN [mm EXCEPT ![offset \div 8 + 1] = new]
            ELSE mm,
     prev |-> mm[offset \div 8 + 1]]

InitCas ==
    /\ cmap = [w \in 1..CasWords |-> 0]
    /\ cthreads = [t \in CMapThreads |-> [offset |-> 0, writes |-> 0]]
    /\ cin = NoResult /\ cout = NoResult
    /\ clock = timestamp(StartDate)
    /\ base_dir = {}
    /\ cycles = EmptyMap
    /\ writers = [w \in WriterIds |-> NoWriter]
    /\ reader = new_reader(NoPolling, NoDate, <<>>, NoMemory, DefaultThreadIdBits).r
    /\ pc = Idle
    /\ ret = Constructed
    /\ last_read = NoRead
    /\ trail = NoTrail

\* one pass of CMapThread.run's loop
CMapRun(t) ==
    /\ cthreads[t].offset < CasWords * 8
    /\ \E res \in {try_atomic_write_mmap(cmap, cthreads[t].offset, 0, t)} :
          /\ cmap' = res.mm
          /\ cthreads' = [cthreads EXCEPT ![t] =
                 [offset |-> @.offset + 8,
                  writes |-> IF res.prev = 0 THEN @.writes + 1 ELSE @.writes]]
    /\ UNCHANGED <<cin, cout, envvars, rdvars>>

NextCas == \E t \in CMapThreads : CMapRun(t)

SpecCas == InitCas /\ [][NextCas]_vars

-----------------------------------------------------------------------------
(* The damaged-chronicle specification: two written cycles, one of them     *)
(* with a data file missing or an index slot overwritten, tailed from the   *)
(* start by a reader of either polling mode.                                *)

\* a cycle directory without one of its data files
WithoutData(cyc, key) == [cyc EXCEPT !.data = [k \in DOMAIN @ \ {key} |-> @[k]]]

\* a cycle directory whose slot j - 1 holds another word
WithWord(cyc, j, word) == [cyc EXCEPT !.slots[j] = word]

\* slot words no appender writes: a thread with position 0, a position with thread 0
ThreadOnlyWord == pack_slot(DefaultThreadIdBits, BitsOf(1), <<>>)
PositionOnlyWord == pack_slot(DefaultThreadIdBits, <<>>, BitsOf(8))

\* the cycles of the first and of the second day
Damaged ==
    {<<WithoutData(WrittenCycle(SlotsPerIndexFile + 1), <<2, 0>>), WrittenCycle(1)>>,
     <<WrittenCycle(1), WithoutData(WrittenCycle(2), <<1, 0>>)>>,
     <<WithWord(WrittenCycle(SlotsPerIndexFile + 1), 2, ThreadOnlyWord), WrittenCycle(1)>>,
     <<WrittenCycle(1), WithWord(WrittenCycle(2), 1, PositionOnlyWord)>>}

InitDamaged ==
    /\ clock = timestamp(DayOf(2))
    /\ base_dir = {[name |-> date_str(DayOf(k)), isdir |-> TRUE] : k \in 1..2}
    /\ \E dmg \in Damaged :
          cycles = [dir \in {date_str(DayOf(k)) : k \in 1..2} |->
                       dmg[CHOOSE k \in 1..2 : date_str(DayOf(k)) = dir]]
    /\ writers = [w \in WriterIds |-> [NoWriter EXCEPT !.n = MaxAppends]]
    /\ \E p \in Pollings :
          reader = new_reader(p, NoDate, <<>>, NoMemory, DefaultThreadIdBits).r
    /\ pc = Idle
    /\ ret = Constructed
    /\ last_read = NoRead
    /\ trail = [ok |-> TRUE, recs |-> <<>>]
    /\ NoCodec

NextDamaged ==
    \/ Tick
    \/ \E op \in NextOps : NextStart(op)
    \/ NextSlot
    \/ NextCheck
    \/ GetEndIndexToday

SpecDamaged == InitDamaged /\ [][NextDamaged]_vars

-----------------------------------------------------------------------------
(* The listing specification: a written chronicle whose base directory      *)
(* holds other entries beside the cycle directories, and a non-blocking     *)
(* reader that reads, is positioned by date and is closed.                  *)

\* a file "lock", an 8-digit file after the last day, a directory named by the six
\* digits of StartDate's month, and an 8-digit directory after the last day whose name is
\* no date (day 99)
LockFile == [name |-> <<108, 111, 99, 107>>, isdir |-> FALSE]
DatedFile == [name |-> date_str(DayOf(MaxTicks + 2)), isdir |-> FALSE]
MonthDir == [name |-> SubSeq(date_str(StartDate), 1, 6), isdir |-> TRUE]
NoDateDir == [name |-> SubSeq(date_str(DayOf(MaxTicks + 1)), 1, 6) \o <<57, 57>>, isdir |-> TRUE]

OtherEntries ==
    {{}, {LockFile}, {DatedFile}, {MonthDir}, {NoDateDir}, {LockFile, DatedFile, MonthDir}}

InitListing ==
    /\ \E shape \in Shapes : \E days \in {{k \in DOMAIN shape : shape[k] # NoCycle}} :
       \E others \in OtherEntries :
          /\ clock = timestamp(DayOf(CHOOSE k \in days : \A j \in days : j <= k))
          /\ base_dir = {[name |-> date_str(DayOf(k)), isdir |-> TRUE] : k \in days} \cup others
          /\ cycles = [dir \in {date_str(DayOf(k)) : k \in days} |->
                          WrittenCycle(shape[CHOOSE k \in days : date_str(DayOf(k)) = dir])]
    /\ writers = [w \in WriterIds |-> [NoWriter EXCEPT !.n = MaxAppends]]
    /\ reader = new_reader(NoPolling, NoDate, <<>>, NoMemory, DefaultThreadIdBits).r
    /\ pc = Idle
    /\ ret = Constructed
    /\ last_read = NoRead
    /\ trail = NoTrail
    /\ NoCodec

NextListing ==
    \/ Tick
    \/ \E op \in NextOps : NextCall(op)
    \/ \E date \in ModelDates \cup {NoDate} : SetDate(date)
    \/ Close

SpecListing == InitListing /\ [][NextListing]_vars

-----------------------------------------------------------------------------
(* What the claims speak of.                                               *)

Range(s) == {s[i] : i \in DOMAIN s}
IsPrefix(s, t) == Len(s) <= Len(t) /\ SubSeq(t, 1, Len(s)) = s
Last(s) == s[Len(s)]

\* the record published in slot j - 1 of a cycle directory
RecordAt(dir, j) ==
    [dir |-> dir, filenum |-> cycles[dir].log[j].filenum, pos |-> cycles[dir].log[j].pos,
     thread |-> cycles[dir].log[j].thread]

\* the published records of the cycle directories named, in the order of the names and,
\* in a directory, of the slots
RECURSIVE PublishedIn(_)
PublishedIn(names) ==
    IF names = <<>> THEN <<>>
    ELSE [j \in 1..Len(cycles[Head(names)].log) |-> RecordAt(Head(names), j)]
         \o PublishedIn(Tail(names))

Published == PublishedIn(sorted_listdir)

WritersStopped == \A w \in WriterIds : writers[w].pc = "idle"

\* the reader's last call ended with NoData, and so would another one now
ReadToNoData ==
    /\ pc = Idle
    /\ reader.polling_interval = NoPolling
    /\ ret.op = "next_raw_bytes" /\ ret.err = "NoData"
    /\ next_position(reader).err = "NoData"

\* the three conditions of a rollover, as they are in the current state
SlotUnpublished == reader.index >= Len(cycles[reader.cycle_dir].slots)
ClockAdvanced == StrLess(date_str(reader.date), date_str(today))
NextCycleExists == \E e \in base_dir : StrLess(reader.cycle_dir, e.name)

\* C1: writers appending in any interleaving with a non-blocking reader that started at
\* the beginning: once the writers have stopped and next_raw_bytes has ended with
\* NoData, the records returned are the records published, each exactly once.
C1_EveryRecordOnce ==
    (trail.ok /\ WritersStopped /\ ReadToNoData)
        => /\ Range(trail.recs) = Range(Published)
           /\ Len(trail.recs) = Len(Published)

\* C2: a successful read that stays in its cycle returns the record of the slot at the
\* cursor and advances the cursor by exactly one; after a read of the same cycle the
\* slot returned is the next one.
C2_SlotsInSequence ==
    [][(last_read' # last_read /\ reader'.cycle_dir = reader.cycle_dir)
          => /\ reader'.index = reader.index + 1
             /\ last_read' = [dir |-> reader.cycle_dir, slot |-> reader.index]
             /\ (last_read.dir = last_read'.dir => last_read'.slot = last_read.slot + 1)
             /\ trail'.recs = Append(trail.recs, RecordAt(reader.cycle_dir, reader.index + 1))]_vars

\* C2's case: the third record in a row of one cycle has been returned
C2_ThirdInARow ==
    /\ last_read.slot = 2
    /\ Len(trail.recs) >= 3
    /\ trail.recs[Len(trail.recs) - 2].dir = last_read.dir

\* C3: a reader constructed without date and full_index returns the published records
\* cycle after cycle in the order of the names, and in a cycle in slot order, skipping
\* none: what it has returned is a prefix of the published records in that order.
C3_CycleAfterCycle == trail.ok => IsPrefix(trail.recs, Published)

\* C4: while any of the three conditions (the slot at the cursor is unpublished, the
\* clock's date is past the cycle's date, a later cycle directory exists) is false, a
\* step of the reader keeps the cycle, and the rollover test keeps the cursor.
C4_RolloverOnlyWhenAllThree ==
    [][(reader.cycle_dir # None /\ ~(SlotUnpublished /\ ClockAdvanced /\ NextCycleExists))
          => /\ reader'.cycle_dir = reader.cycle_dir
             /\ (pc.at = "check" => reader'.index = reader.index)]_vars

\* C5: to_full_index(d, i) is i + (days since the epoch << CYCLE_INDEX_POS) and
\* from_full_index gives (d, i) back, for every date d and every intra-day index i below
\* 2^CYCLE_INDEX_POS; to_full_index(2015-04-16, 10) is 18187021835042826 and is taken
\* back to (2015-04-16, 10).
C5_FullIndexRoundTrip ==
    /\ Decimal(to_full_index(Date(2015, 4, 16), 10))
           = <<1, 8, 1, 8, 7, 0, 2, 1, 8, 3, 5, 0, 4, 2, 8, 2, 6>>
    /\ from_full_index(to_full_index(Date(2015, 4, 16), 10)) = <<Date(2015, 4, 16), 10>>
    /\ (cin.kind = "full" /\ cout.done)
           => /\ ShiftRight(cout.full, CYCLE_INDEX_POS) = BitsOf(timestamp(cin.date) \div 86400)
              /\ BitAnd(cout.full, Rep(1, CYCLE_INDEX_POS)) = BitsOf(cin.index)
              /\ cout.back = <<cin.date, cin.index>>

\* C6: for thread_id_bits T in 14..18, the word (thread << (64 - T)) | position is
\* decoded to the thread and the position it was packed from, the position is
\* filenum * 2^FILENUM_FROM_POS_SHIFT + byte offset with the offset within POS_MASK, and
\* the thread mask and the position mask are disjoint and cover the 64 bits.
C6_SlotWordRoundTrip ==
    (cin.kind = "slot" /\ cout.done)
        => /\ cout.dec.thread = cin.thread
           /\ cout.dec.position = cin.position
           /\ cout.dec.filenum = ShiftRight(cin.position, FILENUM_FROM_POS_SHIFT)
           /\ Plus(ShiftLeft(cout.dec.filenum, FILENUM_FROM_POS_SHIFT), cout.dec.pos) = cin.position
           /\ Len(cout.dec.pos) <= Len(POS_MASK)
           /\ BitAnd(thread_id_idx_mask(cin.T), index_data_offset_mask(cin.T)) = <<>>
           /\ BitOr(thread_id_idx_mask(cin.T), index_data_offset_mask(cin.T)) = Rep(1, WORD_BITS)

\* C6's case: the largest thread and the largest position of the widest thread field
C6_WidestFields ==
    /\ cin.kind = "slot" /\ cout.done
    /\ cin.T = MaxThreadIdBits
    /\ cin.thread = Rep(1, MaxThreadIdBits)
    /\ cin.position = Rep(1, WORD_BITS - MaxThreadIdBits)
    /\ cout.dec.thread = cin.thread /\ cout.dec.position = cin.position

\* C7: in every state of a reader with a current cycle, get_end_index_today returns
\* to_full_index(date, n), n being the number of published slots of the cycle, and a
\* second call returns the same value.
C7_EndIndexToday ==
    (pc = Idle /\ reader.cycle_dir \in DOMAIN cycles)
        => \E e \in {get_end_index_today(reader)} :
              /\ e.err = ""
              /\ e.val = to_full_index(reader.date, Len(cycles[reader.cycle_dir].slots))
              /\ get_end_index_today(e.r).err = ""
              /\ get_end_index_today(e.r).val = e.val

\* C8: with a current cycle and a cursor reached by reading, set_index(get_index())
\* changes neither the cycle, the date nor the cursor, and the next read returns what
\* it would have returned without the call.
C8_SetIndexOfGetIndex ==
    (pc = Idle /\ trail.ok /\ reader.cycle_dir # None)
        => \E s \in {set_index(reader, get_index(reader).val)} :
              /\ s.err = ""
              /\ s.r.cycle_dir = reader.cycle_dir
              /\ s.r.date = reader.date
              /\ s.r.index = reader.index
              /\ next_position(s.r).err = next_position(reader).err
              /\ next_position(s.r).val = next_position(reader).val

\* C9: whatever the reader's state, after set_index(to_full_index(d, i)), the cycle
\* directory of d existing and its slot i being published, the next read returns the
\* record of slot i of that cycle.
C9_SeekThenRead ==
    \A d \in ModelDates : \A i \in SeekIndexes :
        (pc = Idle /\ date_str(d) \in DOMAIN cycles /\ i < Len(cycles[date_str(d)].slots))
            => \E s \in {set_index(reader, to_full_index(d, i))} :
                  /\ s.err = ""
                  /\ \E n \in {next_position(s.r)} :
                        /\ n.err = ""
                        /\ n.r.cycle_dir = date_str(d)
                        /\ n.val = cycles[date_str(d)].log[i + 1]

\* C10: when a read has returned the record of slot k - 1 of the cycle of date d,
\* get_index() is to_full_index(d, k), also for the first record of a cycle rolled
\* into; next_index returns that value.
C10_IndexAfterRead ==
    (pc = Idle /\ ret.op \in NextOps /\ ret.err = "")
        => /\ get_index(reader).err = ""
           /\ get_index(reader).val = to_full_index(DateOf(last_read.dir), last_read.slot + 1)
           /\ Last(trail.recs) = RecordAt(last_read.dir, last_read.slot + 1)
           /\ (ret.op = "next_index" => ret.val = get_index(reader).val)

\* C10's case: the first record of a second cycle has been returned
C10_FirstAfterRollover ==
    /\ pc = Idle /\ ret.op \in NextOps /\ ret.err = ""
    /\ last_read.slot = 0
    /\ Len(trail.recs) >= 2
    /\ trail.recs[Len(trail.recs) - 1].dir # last_read.dir

\* a call of next_index or next_raw_bytes has ended with an exception
CallRaised == pc = Idle /\ ret.op \in NextOps /\ ret.err # ""

\* C11: with polling_interval = None a read that finds no unread record ends with
\* NoData and with no other exception, however many records were read before, and the
\* first read of a reader constructed on an empty base directory ends with NoData.
C11_OnlyNoData ==
    /\ (CallRaised /\ reader.polling_interval = NoPolling) => ret.err = "NoData"
    /\ (pc = Idle /\ reader.polling_interval = NoPolling /\ base_dir = {})
           => next_position(reader).err = "NoData"

\* C12: with polling_interval = 0 no read ends with NoData, also when the base
\* directory holds no cycle directory yet.
C12_NoDataOnlyWhenNonBlocking ==
    (CallRaised /\ reader.polling_interval # NoPolling) => ret.err # "NoData"

\* C13: a spinning read of a reader that has a current cycle waits for the slot at the
\* cursor: it ends by returning that slot's record and never with an exception, also
\* when the slot awaited is the first of an index file not yet created.
C13_SpinWaitsForSlot ==
    (CallRaised /\ reader.polling_interval # NoPolling) => reader.cycle_dir = None

\* the word of a slot of the reader's cycle directory, zero when unpublished
SlotWord(S) ==
    IF S < Len(cycles[reader.cycle_dir].slots) THEN cycles[reader.cycle_dir].slots[S + 1] ELSE <<>>

\* C14: a reader reading a cycle from its start crosses the index files' boundaries: what
\* it has returned are the slots below the cursor in order, none skipped and none read
\* again; the chain holds index-0 .. index-k in order, k the file of the cursor or of the
\* slot before it; the next read returns the slot at the cursor without an error, also
\* when that is the first slot of the next index file; and the word read for slot S is
\* that of file (S*8) >> FILENUM_FROM_INDEX_SHIFT at byte (S*8) & INDEX_OFFSET_MASK.
C14_IndexFileCrossing ==
    (pc = Idle /\ trail.ok /\ reader.cycle_dir # None)
        => /\ Len(trail.recs) = reader.index
           /\ \A j \in 1..Len(trail.recs) : trail.recs[j] = RecordAt(reader.cycle_dir, j)
           /\ \A i \in 1..Len(reader.index_mm) :
                 reader.index_mm[i] = [dir |-> reader.cycle_dir, num |-> i - 1]
           /\ Len(reader.index_mm) <= (reader.index \div SlotsPerIndexFile) + 1
           /\ reader.index > 0
                 => Len(reader.index_mm) >= ((reader.index - 1) \div SlotsPerIndexFile) + 1
           /\ \E g \in {get_index_value(reader, reader.index)} :
                 /\ g.err = ""
                 /\ g.val = SlotWord(reader.index)
                 /\ Last(g.r.index_mm).num
                       >= ValueOf(ShiftRight(BitsOf(reader.index * 8), FILENUM_FROM_INDEX_SHIFT))
           /\ \E n \in {next_position(reader)} :
                 IF reader.index < Len(cycles[reader.cycle_dir].slots)
                 THEN /\ n.err = ""
                      /\ n.r.index = reader.index + 1
                      /\ n.val = cycles[reader.cycle_dir].log[reader.index + 1]
                 ELSE n.err = "NoData"

\* C14's case: the first slot of the third index file has been returned after the slots
\* before it
C14_FirstSlotOfThirdFile ==
    /\ pc = Idle /\ trail.ok /\ ret.err = ""
    /\ last_read.slot = 2 * SlotsPerIndexFile
    /\ Len(trail.recs) = 2 * SlotsPerIndexFile + 1
    /\ Len(reader.index_mm) = 3

\* C15: for every max_mapped_memory (None, one data file, many) the reader returns the
\* same: the published records in order, none dropped before NoData, and with each
\* record its offset and the open mapping of the data file of its thread and file number,
\* where the writer's payload lies.
C15_SameForEveryMapBound ==
    /\ trail.ok => IsPrefix(trail.recs, Published)
    /\ (pc = Idle /\ trail.ok /\ ret.op \in NextOps /\ ret.err # "")
           => ret.err = "NoData" /\ trail.recs = Published
    /\ (pc = Idle /\ ret.op = "next_raw_bytes" /\ ret.err = "")
           => \E rec \in {RecordAt(last_read.dir, last_read.slot + 1)} :
                 /\ ret.val.offset = rec.pos
                 /\ ret.val.mm = [dir |-> rec.dir, filenum |-> rec.filenum, thread |-> rec.thread]
                 /\ ret.val.mm \in Range(reader.data_mms)
                 /\ cycles[rec.dir].data[<<rec.thread, rec.filenum>>][rec.pos].id = rec.thread

\* C15's case: a reader bounded to one mapping has returned a record from a second data
\* file of a cycle, the mapping of the first evicted
C15_Evicted ==
    /\ pc = Idle /\ ret.op = "next_raw_bytes" /\ ret.err = ""
    /\ reader.max_maps = 1
    /\ Cardinality(reader.data_fhs) = 2
    /\ Len(reader.data_mms) = 1
    /\ Len(trail.recs) >= 2

\* the payload the writer stored for a record, NoResult when nothing is stored there
PayloadOf(rec) ==
    IF /\ rec.dir \in DOMAIN cycles
       /\ <<rec.thread, rec.filenum>> \in DOMAIN cycles[rec.dir].data
       /\ rec.pos \in DOMAIN cycles[rec.dir].data[<<rec.thread, rec.filenum>>]
    THEN cycles[rec.dir].data[<<rec.thread, rec.filenum>>][rec.pos]
    ELSE NoResult

\* C16: in every interleaving the payload of every published slot is stored, and what
\* next_raw_bytes returns for a slot is the offset and the mapping of the data file where
\* the payload of that slot's writer lies.
C16_PayloadBeforeSlot ==
    /\ \A dir \in DOMAIN cycles : \A j \in 1..Len(cycles[dir].log) :
          /\ PayloadOf(RecordAt(dir, j)) # NoResult
          /\ PayloadOf(RecordAt(dir, j)).id = cycles[dir].log[j].thread
    /\ (pc = Idle /\ ret.op = "next_raw_bytes" /\ ret.err = "")
           => \E rec \in {[dir |-> ret.val.mm.dir, thread |-> ret.val.mm.thread,
                           filenum |-> ret.val.mm.filenum, pos |-> ret.val.offset]} :
                 /\ rec.dir = last_read.dir
                 /\ rec = RecordAt(last_read.dir, last_read.slot + 1)
                 /\ PayloadOf(rec) # NoResult
                 /\ PayloadOf(rec).id = rec.thread

\* C16's case: a record has been returned while another writer has stored its payload in
\* the same cycle and not yet published its slot
C16_ReadBesideUnpublished ==
    /\ pc = Idle /\ ret.op = "next_raw_bytes" /\ ret.err = ""
    /\ \E w \in WriterIds :
          /\ writers[w].pc = "publish"
          /\ writers[w].dir = last_read.dir
          /\ w # ret.val.mm.thread

\* C17: threads trying cas_word(offset, 0, id) on the same words in any interleaving: each
\* thread's count of successes is the number of words holding its id, a word is zero
\* only while no thread has tried it, and once all threads have tried every word each
\* word holds the id of one thread, one success a word.
C17_OneWinnerPerWord ==
    /\ \A t \in DOMAIN cthreads :
          cthreads[t].writes = Cardinality({w \in DOMAIN cmap : cmap[w] = t})
    /\ \A w \in DOMAIN cmap :
          /\ cmap[w] \in {0} \cup DOMAIN cthreads
          /\ cmap[w] = 0 <=> \A t \in DOMAIN cthreads : cthreads[t].offset <= (w - 1) * 8
          /\ cmap[w] # 0 => cthreads[cmap[w]].offset > (w - 1) * 8
    /\ (\A t \in DOMAIN cthreads : cthreads[t].offset = Len(cmap) * 8)
           => \A w \in DOMAIN cmap : cmap[w] \in DOMAIN cthreads

\* C17's case: every thread has tried every word and each has won some
C17_AllTriedBothWon ==
    /\ cthreads # <<>>
    /\ \A t \in DOMAIN cthreads : cthreads[t].offset = Len(cmap) * 8 /\ cthreads[t].writes >= 1

\* the lexicographically smallest and greatest cycle directory
FirstCycle == CHOOSE d \in DOMAIN cycles : \A e \in DOMAIN cycles : ~StrLess(e, d)
LastCycle == CHOOSE d \in DOMAIN cycles : \A e \in DOMAIN cycles : ~StrLess(d, e)

\* C18: after close(), in whatever state it was called, the cursor and max_index are 0,
\* cycle_dir, date and full_index_base are unset and nothing is open; the next read
\* resolves the first cycle directory and reads its slot 0, and returns that slot's
\* record when it is published.
C18_CloseRestarts ==
    (pc = Idle /\ ret.op = "close")
        => /\ reader.index = 0 /\ reader.max_index = 0
           /\ reader.cycle_dir = None /\ reader.date = NoDate
           /\ reader.full_index_base = NoNumber
           /\ reader.index_mm = <<>> /\ reader.index_fh = <<>>
           /\ reader.data_mms = <<>> /\ reader.data_fhs = {}
           /\ \E s \in {read_slot(reader)} :
                 /\ s.err = ""
                 /\ s.r.cycle_dir = FirstCycle /\ s.r.index = 0
                 /\ s.r.index_mm = <<[dir |-> FirstCycle, num |-> 0]>>
                 /\ s.val.position # <<>> <=> cycles[FirstCycle].slots # <<>>
           /\ cycles[FirstCycle].slots # <<>>
                 => \E n \in {next_position(reader)} :
                       /\ n.err = ""
                       /\ n.r.cycle_dir = FirstCycle /\ n.r.index = 1
                       /\ n.val = cycles[FirstCycle].log[1]

\* C18's case: close() has been called on a chronicle of two cycles whose first has records
C18_ClosedOnTwoCycles ==
    /\ pc = Idle /\ ret.op = "close"
    /\ reader.cycle_dir = None /\ reader.index = 0
    /\ FirstCycle # LastCycle
    /\ cycles[FirstCycle].slots # <<>>

\* the reader was constructed with the date d and without a full_index
ConstructedWithDate(d) ==
    /\ pc = Idle /\ ret.op = "construct" /\ ret.err = ""
    /\ ret.arg # None /\ ret.arg = <<d, <<>>>>

\* C19: a reader constructed with date = d is at slot 0 of the smallest existing cycle
\* directory whose name is on or after YYYYMMDD(d), and its date is d when the directory
\* of d exists.
C19_ConstructWithDate ==
    \A d \in ModelDates :
        (ConstructedWithDate(d) /\ \E e \in DOMAIN cycles : ~StrLess(e, date_str(d)))
            => /\ reader.index = 0
               /\ reader.cycle_dir \in DOMAIN cycles
               /\ ~StrLess(reader.cycle_dir, date_str(d))
               /\ \A e \in DOMAIN cycles :
                     ~StrLess(e, date_str(d)) => ~StrLess(e, reader.cycle_dir)
               /\ date_str(d) \in DOMAIN cycles => reader.date = d

\* C20: after set_end(), in whatever state it was called, the reader is in the last cycle
\* directory with the cursor at the number of its published slots, and the next read
\* ends with NoData while nothing more is published.
C20_SetEnd ==
    (pc = Idle /\ ret.op = "set_end")
        => /\ ret.err = ""
           /\ reader.cycle_dir = LastCycle
           /\ reader.index = Len(cycles[LastCycle].slots)
           /\ next_position(reader).err = "NoData"


\* the reads of next_position from a reader's state up to the first exception: the
\* records returned, the exception and the reader afterwards
RECURSIVE read_until_error(_, _)
read_until_error(r, recs) ==
    Let(next_position(r), LAMBDA n :
        IF n.err # "" THEN [r |-> n.r, err |-> n.err, recs |-> recs]
        ELSE read_until_error(n.r, Append(recs, [dir |-> n.r.cycle_dir, filenum |-> n.val.filenum,
                                                 pos |-> n.val.pos, thread |-> n.val.thread])))

\* the base directory's entries from a name on, in the listing's order
CyclesFrom(dir) == SelectSeq(sorted_listdir, LAMBDA f : ~StrLess(f, dir))

ConstructedWithMemory(m) ==
    /\ pc = Idle /\ ret.op = "construct"
    /\ ret.arg = [max_mapped_memory |-> m]

\* C22: the constructor raises ConfigError for every max_mapped_memory below
\* DATA_FILE_SIZE that is given; from DATA_FILE_SIZE on the capacity is
\* max_mapped_memory div DATA_FILE_SIZE; and without a bound the cache is unbounded.
C22_ConfigError ==
    \A m \in ConfigMemories :
        ConstructedWithMemory(m)
            => IF m = NoMemory THEN ret.err = "" /\ reader.max_maps = 0
               ELSE IF m < DATA_FILE_SIZE THEN ret.err = "ConfigError"
               ELSE /\ ret.err = ""
                    /\ reader.max_maps = m \div DATA_FILE_SIZE
                    /\ reader.max_maps >= 1


\* the slot at the cursor is published and the data file its word names does not exist
\* in the cycle directory the slot is read from
SlotNamesMissingFile ==
    \E s \in {read_slot(reader)} :
       /\ s.err = "" /\ s.val.position # <<>>
       /\ ~data_file_exists(s.r.cycle_dir, ValueOf(s.val.filenum), ValueOf(s.val.thread))

\* C23: in either polling mode, the step of next_raw_bytes that takes a published slot
\* whose data file does not exist in the cycle directory ends the call with CorruptData
\* (not with NoData or NoChronicleForDate, and the tail loop does not go on), and no
\* call ends with CorruptData otherwise.
C23_CorruptData ==
    [][/\ (/\ pc.at \in {"idle", "slot"} /\ pc' = Idle
           /\ ret'.op = "next_raw_bytes" /\ reader'.index = reader.index + 1
           /\ SlotNamesMissingFile)
          => ret'.err = "CorruptData"
       /\ (ret'.err = "CorruptData" /\ ret # ret')
          => /\ ret'.op = "next_raw_bytes" /\ pc' = Idle
             /\ SlotNamesMissingFile
             /\ reader'.index = reader.index + 1]_vars

\* C23's case: a spinning reader's next_raw_bytes has ended with CorruptData after a
\* rollover into the cycle whose data file is missing
C23_CorruptWhileSpinning ==
    /\ pc = Idle /\ ret.op = "next_raw_bytes" /\ ret.err = "CorruptData"
    /\ reader.polling_interval = 0
    /\ reader.cycle_dir = LastCycle /\ FirstCycle # LastCycle
    /\ reader.index = 1 /\ reader.data_mms = <<>>


\* the index file of the reader's cycle directory that holds a slot does not exist
IndexFileMissing(slot) ==
    /\ reader.cycle_dir # None
    /\ ~index_file_exists(reader.cycle_dir,
                          ValueOf(ShiftRight(BitsOf(slot * 8), FILENUM_FROM_INDEX_SHIFT)))

\* C24: when the slot to read lies in an index file that does not exist in the current
\* cycle directory, next_position and get_end_index_today end with NoChronicleForDate
\* and leave the index chain (handles and mappings) as it was before the call.
C24_NoChronicleForDate ==
    /\ (pc = Idle /\ IndexFileMissing(reader.index))
           => \E n \in {next_position(reader)} :
                 /\ n.err = "NoChronicleForDate"
                 /\ n.r.index_mm = reader.index_mm /\ n.r.index_fh = reader.index_fh
    /\ (pc = Idle /\ IndexFileMissing(Max(reader.max_index, reader.index)))
           => \E e \in {get_end_index_today(reader)} :
                 /\ e.err = "NoChronicleForDate"
                 /\ e.r.index_mm = reader.index_mm /\ e.r.index_fh = reader.index_fh


\* C25: the slot at the cursor is taken for unpublished by _next_position exactly when
\* its 64-bit word is zero, whatever the word's thread and position fields, and the slot
\* at which get_end_index_today stops holds the word zero.
C25_UnpublishedIsZero ==
    (pc = Idle /\ reader.cycle_dir \in DOMAIN cycles)
        => /\ \E s \in {read_slot(reader)} :
                 s.err = "" => (s.val.position = <<>> <=> SlotWord(reader.index) = <<>>)
           /\ \E e \in {get_end_index_today(reader)} :
                 e.err = "" => SlotWord(e.r.max_index) = <<>>


\* the mapping of a data file of the reader's cycle directory
MappingOf(key) == [dir |-> reader.cycle_dir, filenum |-> key[2], thread |-> key[1]]

\* C26: with a capacity C >= 1 the resident mappings are at most C after every lookup; a
\* hit leaves the cache and its order as they are; a miss appends the new mapping and,
\* when C is exceeded, removes the oldest-inserted entry and no other.
C26_OldestEvicted ==
    /\ reader.max_maps >= 1 => Len(reader.data_mms) <= reader.max_maps
    /\ (pc = Idle /\ reader.cycle_dir \in DOMAIN cycles)
           => \A key \in DOMAIN cycles[reader.cycle_dir].data :
                 \E g \in {get_data_memory_map(reader, key[2], key[1])} :
                    /\ g.err = ""
                    /\ g.r.data_mms =
                          IF MappingOf(key) \in Range(reader.data_mms) THEN reader.data_mms
                          ELSE IF reader.max_maps = 0 \/ Len(reader.data_mms) < reader.max_maps
                               THEN Append(reader.data_mms, MappingOf(key))
                               ELSE Append(Tail(reader.data_mms), MappingOf(key))
                    /\ reader.max_maps >= 1 => Len(g.r.data_mms) <= reader.max_maps

\* C26's case: a reader of capacity 2 has read into a third data file: the first file's
\* mapping, the oldest although named again after the second, is the one evicted
C26_FirstInFirstOut ==
    /\ pc = Idle /\ ret.op = "next_raw_bytes" /\ ret.err = ""
    /\ reader.max_maps = 2 /\ reader.index = 4
    /\ Cardinality(reader.data_fhs) = 3
    /\ reader.data_mms = <<MappingOf(<<2, 0>>), MappingOf(<<1, 1>>)>>

\* C27: the mapping next_raw_bytes returns is resident in the cache when the call
\* returns, for every capacity including 1, and a lookup of any data file of the cycle
\* returns a mapping that the same lookup leaves resident.
C27_ReturnedMappingOpen ==
    /\ (pc = Idle /\ ret.op = "next_raw_bytes" /\ ret.err = "")
           => /\ ret.val.mm.dir = reader.cycle_dir
              /\ \E i \in 1..Len(reader.data_mms) : reader.data_mms[i] = ret.val.mm
    /\ (pc = Idle /\ reader.cycle_dir \in DOMAIN cycles)
           => \A key \in DOMAIN cycles[reader.cycle_dir].data :
                 \E g \in {get_raw_bytes(reader, key[2], 8, key[1])} :
                    /\ g.err = ""
                    /\ g.val.mm = MappingOf(key)
                    /\ \E i \in 1..Len(g.r.data_mms) : g.r.data_mms[i] = g.val.mm

\* C27's case: a reader of capacity 1 has returned the mapping of a third data file, the
\* mappings before it evicted
C27_CapacityOne ==
    /\ pc = Idle /\ ret.op = "next_raw_bytes" /\ ret.err = ""
    /\ reader.max_maps = 1
    /\ Cardinality(reader.data_fhs) = 3
    /\ reader.data_mms = <<ret.val.mm>>


\* the entries of the base directory that match ^[0-9]{8}$ and are directories
CycleEntries == {e.name : e \in {x \in base_dir : match_cycle_name(x.name) /\ x.isdir}}

\* the smallest of a set of names
Smallest(names) == CHOOSE f \in names : \A g \in names : ~StrLess(g, f)

\* C28: from a current cycle directory, next_cycle goes to the smallest entry of the base
\* directory that is an 8-digit directory and greater than the current name; without such
\* an entry the reader stays as it is, no error raised; and the reader's cycle directory
\* is never an entry that is not an 8-digit directory.
C28_NextCycle ==
    /\ reader.cycle_dir # None => reader.cycle_dir \in CycleEntries
    /\ (pc = Idle /\ reader.cycle_dir \in CycleEntries)
           => \E later \in {{f \in CycleEntries : StrLess(reader.cycle_dir, f)}} :
              \E t \in {try_next_date(reader)} :
                 /\ t.err = ""
                 /\ IF later = {} THEN ~t.val /\ t.r = reader
                    ELSE t.val /\ t.r.cycle_dir = Smallest(later) /\ t.r.index = 0

\* C29: set_date(d) puts the reader at slot 0 of the smallest 8-digit directory of the
\* base directory whose name is on or after YYYYMMDD(d), the first one when d is None;
\* without such an entry it raises NoData and leaves the reader as it was.
C29_SetDate ==
    /\ (pc = Idle /\ ret.op = "set_date")
           => IF ret.err = ""
              THEN /\ reader.cycle_dir \in CycleEntries
                   /\ ret.arg # NoDate => ~StrLess(reader.cycle_dir, date_str(ret.arg))
                   /\ reader.index = 0 /\ reader.date = DateOf(reader.cycle_dir)
              ELSE ret.err = "NoData"
    /\ pc = Idle
           => \A d \in ModelDates \cup {NoDate} :
              \E hits \in {{f \in CycleEntries : d = NoDate \/ ~StrLess(f, date_str(d))}} :
              \E s \in {set_date(reader, d)} :
                 IF hits = {} THEN s.err = "NoData" /\ s.r = reader
                 ELSE /\ s.err = ""
                      /\ s.r.cycle_dir = Smallest(hits) /\ s.r.index = 0
                      /\ s.r.date = DateOf(Smallest(hits))
                      /\ s.r.index_mm = <<>> /\ s.r.data_mms = <<>>


CycleFieldsAgree(r) ==
    IF r.cycle_dir = None THEN r.date = NoDate /\ r.full_index_base = NoNumber
    ELSE /\ date_parses(r.cycle_dir)
         /\ r.date = DateOf(r.cycle_dir)
         /\ r.full_index_base = to_full_index(r.date, 0)

\* every handle and mapping the reader holds was opened below its cycle directory
OpenedFromCycleDir(r) ==
    /\ \A i \in 1..Len(r.index_fh) : r.index_fh[i].dir = r.cycle_dir
    /\ \A i \in 1..Len(r.index_mm) : r.index_mm[i].dir = r.cycle_dir
    /\ \A fh \in r.data_fhs : fh.dir = r.cycle_dir
    /\ \A i \in 1..Len(r.data_mms) : r.data_mms[i].dir = r.cycle_dir

\* C31: in every reachable state every open index mapping, cached data mapping and data
\* file handle was opened from the current cycle directory; cycle_dir, date and
\* full_index_base are all unset, or date is the parsed name of cycle_dir and
\* full_index_base = to_full_index(date, 0); and a change of cycle (_update_cycle_dir on
\* any entry of the base directory) leaves the chain and the cache empty and index and
\* max_index 0.
C31_OneCycleAtATime ==
    /\ OpenedFromCycleDir(reader)
    /\ CycleFieldsAgree(reader)
    /\ \A e \in base_dir :
          \E u \in {call_update_cycle_dir(reader, e.name, None).r} :
             /\ u.cycle_dir = e.name
             /\ held(u) = 0 /\ u.index = 0 /\ u.max_index = 0

\* the number of the index file that holds a slot: (S * 8) >> FILENUM_FROM_INDEX_SHIFT
IndexFileOf(S) == ValueOf(ShiftRight(BitsOf(S * 8), FILENUM_FROM_INDEX_SHIFT))

\* C32: in every reachable state the index chain has equally many handles and mappings
\* and its k-th entry maps index-k of the current cycle directory; and reading the slot S
\* at the cursor, of file f = (S*8) >> FILENUM_FROM_INDEX_SHIFT, while index-0 .. index-f
\* all exist returns the word of S from index-f, whatever the length of the chain before
\* the call.
C32_ChainReachesSlot ==
    /\ Len(reader.index_fh) = Len(reader.index_mm)
    /\ \A k \in 1..Len(reader.index_mm) :
          /\ reader.index_mm[k] = [dir |-> reader.cycle_dir, num |-> k - 1]
          /\ reader.index_fh[k] = [dir |-> reader.cycle_dir, num |-> k - 1]
    /\ (pc = Idle /\ reader.cycle_dir # None)
           => \A S \in {reader.index} :
                 (\A k \in 0..IndexFileOf(S) : index_file_exists(reader.cycle_dir, k))
                     => \E g \in {get_index_value(reader, S)} :
                           /\ g.err = ""
                           /\ g.val = SlotWord(S)
                           /\ Len(g.r.index_mm) > IndexFileOf(S)

\* the errors of a read that the caller may see and try again after
ReadErrors == {"NoData", "CorruptData", "NoChronicleForDate"}

\* C33: a next_raw_bytes call that ends with NoData, CorruptData or NoChronicleForDate
\* consumes no record: the step that ends the call leaves the cursor at the slot it was
\* at, or at slot 0 of a later cycle directory when it rolled over.
C33_FailedReadKeepsSlot ==
    [][(pc' = Idle /\ ret'.op = "next_raw_bytes" /\ ret'.err \in ReadErrors)
          => \/ reader'.cycle_dir = reader.cycle_dir /\ reader'.index = reader.index
             \/ /\ reader'.index = 0
                /\ reader.cycle_dir = None \/ StrLess(reader.cycle_dir, reader'.cycle_dir)]_vars

=============================================================================
